---------------------------- MODULE Spec2Model ----------------------------
(***************************************************************************)
(* Model of the Go rules engine of go.go: the Board (size, grid, turn,     *)
(* passes) and its operations PlaceStone and Pass, with the liberty search *)
(* (hasLiberties) and the group removal (removeGroup) computed the way the *)
(* code computes them.                                                     *)
(***************************************************************************)
EXTENDS Integers, Sequences, FiniteSets, TLC

(* ------------------------------ bounds -------------------------------- *)

\* The board is NewBoard(BoardSize).
BoardSize == 3

\* Number of successful operations (accepted placements and passes) explored.
MaxOps == 5

\* The board and the number of successful operations of the capture scenario.
ScenarioSize == 5
ScenarioOps == 8

\* The largest size NewBoard is called with, and the number of successful
\* operations explored, where the size and the queries are what is examined.
\* Successful operations in a run of the ko.
KoOps == 7

MaxNewSize == 2
QueryOps == 3

(* --------------------------- program constants ------------------------ *)

Empty == 0
Black == 1
White == 2

Stone == {Empty, Black, White}

\* The four neighbour offsets, in the order the code examines them.
directions == << <<-1, 0>>, <<1, 0>>, <<0, -1>>, <<0, 1>> >>

(* -------------------------------- state ------------------------------- *)

VARIABLES
    size,      \* Board.size
    grid,      \* Board.grid, a function from <<row, col>> to Stone
    turn,      \* Board.turn
    passes,    \* Board.passes
    lastOp,    \* the last call and what it returned
    prev,      \* grid, turn and passes as they were when the last call began
    nOps,      \* number of successful operations so far
    lastOk,    \* kind of the latest successful operation
    prevOk,    \* kind of the successful operation before the latest one
    opLimit    \* number of successful operations the run explores

vars == <<size, grid, turn, passes, lastOp, prev, nOps, lastOk, prevOk, opLimit>>

\* The cells of an n x n grid.
Cells(n) == (0 .. n - 1) \X (0 .. n - 1)

\* The (row, col) arguments the callers of the model pass: the cells of the
\* board within its top-left 3 x 3 corner, and one position beyond each of the
\* four edges of the board.
InputsOf(n) ==
    (Cells(n) \cap Cells(3)) \cup {<<-1, 0>>, <<n, 0>>, <<0, -1>>, <<0, n>>}

Inputs == InputsOf(BoardSize)

(* ------------------------------ helpers ------------------------------- *)

isInBounds(row, col) ==
    row >= 0 /\ row < size /\ col >= 0 /\ col < size

\* IsValidMove without the test of the cell.
IsValidMove_IgnoresCell(g, row, col) ==
    IF row < 0 \/ row >= size \/ col < 0 \/ col >= size
    THEN FALSE
    ELSE TRUE

\* IsValidMove with the lower row bound off by one.
IsValidMove_RowOffByOne(g, row, col) ==
    IF row <= 0 \/ row >= size \/ col < 0 \/ col >= size
    THEN FALSE
    ELSE g[<<row, col>>] = Empty

IsValidMove(g, row, col) ==
    IF row < 0 \/ row >= size \/ col < 0 \/ col >= size
    THEN FALSE
    ELSE g[<<row, col>>] = Empty

opponentOf(t) == IF t = White THEN Black ELSE White

\* nextTurn that never hands the move back to Black.
nextTurn_OneWay(t) == White

\* nextTurn stepping through the three values of Stone.
nextTurn_Cycle(t) == (t + 1) % 3

nextTurn(t) == IF t = Black THEN White ELSE Black

RECURSIVE hasLibertiesFrom_AnyColour(_, _, _, _)
RECURSIVE hasLibertiesDirs_AnyColour(_, _, _, _, _)

\* hasLiberties without the same-colour test: the search walks into every
\* neighbouring stone, whoever owns it.
hasLibertiesDirs_AnyColour(g, row, col, i, visited) ==
    IF i > Len(directions)
    THEN [found |-> FALSE, visited |-> visited]
    ELSE LET newRow == row + directions[i][1]
             newCol == col + directions[i][2]
         IN  IF ~isInBounds(newRow, newCol)
             THEN hasLibertiesDirs_AnyColour(g, row, col, i + 1, visited)
             ELSE IF g[<<newRow, newCol>>] = Empty
             THEN [found |-> TRUE, visited |-> visited]
             ELSE LET r == hasLibertiesFrom_AnyColour(g, newRow, newCol, visited)
                  IN  IF r.found
                      THEN r
                      ELSE hasLibertiesDirs_AnyColour(g, row, col, i + 1, r.visited)

hasLibertiesFrom_AnyColour(g, row, col, visited) ==
    IF <<row, col>> \in visited
    THEN [found |-> FALSE, visited |-> visited]
    ELSE hasLibertiesDirs_AnyColour(g, row, col, 1, visited \cup {<<row, col>>})

hasLiberties_AnyColour(g, row, col) ==
    hasLibertiesFrom_AnyColour(g, row, col, {}).found

RECURSIVE hasLibertiesFrom(_, _, _, _)
RECURSIVE hasLibertiesDirs(_, _, _, _, _, _)

RECURSIVE hasLibertiesDirs_FirstBranch(_, _, _, _, _, _)

\* The loop of hasLiberties returning whatever the search of its first
\* same-colour neighbour returns, without looking in the other directions.
hasLibertiesDirs_FirstBranch(g, row, col, stone, i, visited) ==
    IF i > Len(directions)
    THEN [found |-> FALSE, visited |-> visited]
    ELSE LET newRow == row + directions[i][1]
             newCol == col + directions[i][2]
         IN  IF ~isInBounds(newRow, newCol)
             THEN hasLibertiesDirs_FirstBranch(g, row, col, stone, i + 1, visited)
             ELSE IF g[<<newRow, newCol>>] = Empty
             THEN [found |-> TRUE, visited |-> visited]
             ELSE IF g[<<newRow, newCol>>] = stone
             THEN hasLibertiesFrom(g, newRow, newCol, visited)
             ELSE hasLibertiesDirs_FirstBranch(g, row, col, stone, i + 1, visited)

\* The loop of hasLiberties over directions[i..4] for the stone at (row, col);
\* the result carries the visited map, which the recursive calls share.
hasLibertiesDirs(g, row, col, stone, i, visited) ==
    IF i > Len(directions)
    THEN [found |-> FALSE, visited |-> visited]
    ELSE LET newRow == row + directions[i][1]
             newCol == col + directions[i][2]
         IN  IF ~isInBounds(newRow, newCol)
             THEN hasLibertiesDirs(g, row, col, stone, i + 1, visited)
             ELSE IF g[<<newRow, newCol>>] = Empty
             THEN [found |-> TRUE, visited |-> visited]
             ELSE IF g[<<newRow, newCol>>] = stone
             THEN LET r == hasLibertiesFrom(g, newRow, newCol, visited)
                  IN  IF r.found
                      THEN r
                      ELSE hasLibertiesDirs(g, row, col, stone, i + 1, r.visited)
             ELSE hasLibertiesDirs(g, row, col, stone, i + 1, visited)

hasLibertiesFrom(g, row, col, visited) ==
    IF <<row, col>> \in visited
    THEN [found |-> FALSE, visited |-> visited]
    ELSE hasLibertiesDirs(g, row, col, g[<<row, col>>], 1,
                          visited \cup {<<row, col>>})

\* hasLiberties(row, col, make(map[[2]int]bool))
hasLiberties(g, row, col) == hasLibertiesFrom(g, row, col, {}).found

\* removeGroup returning before it clears anything.
removeGroup_NoClear(g, row, col) == g

RECURSIVE removeGroup(_, _, _)
RECURSIVE removeGroupDirs(_, _, _, _, _)

RECURSIVE removeGroupDirs_Diagonal(_, _, _, _, _)

\* The loop of removeGroup walking the four diagonal offsets as well.
removeGroupDirs_Diagonal(g, row, col, stone, i) ==
    LET dirs == directions \o << <<-1, -1>>, <<-1, 1>>, <<1, -1>>, <<1, 1>> >>
    IN  IF i > Len(dirs)
        THEN g
        ELSE LET newRow == row + dirs[i][1]
                 newCol == col + dirs[i][2]
             IN  IF isInBounds(newRow, newCol) /\ g[<<newRow, newCol>>] = stone
                 THEN removeGroupDirs_Diagonal(removeGroup(g, newRow, newCol),
                                               row, col, stone, i + 1)
                 ELSE removeGroupDirs_Diagonal(g, row, col, stone, i + 1)

removeGroupDirs(g, row, col, stone, i) ==
    IF i > Len(directions)
    THEN g
    ELSE LET newRow == row + directions[i][1]
             newCol == col + directions[i][2]
         IN  IF isInBounds(newRow, newCol) /\ g[<<newRow, newCol>>] = stone
             THEN removeGroupDirs(removeGroup(g, newRow, newCol),
                                  row, col, stone, i + 1)
             ELSE removeGroupDirs(g, row, col, stone, i + 1)

removeGroup(g, row, col) ==
    LET stone == g[<<row, col>>]
    IN  IF stone = Empty
        THEN g
        ELSE removeGroupDirs([g EXCEPT ![<<row, col>>] = Empty],
                             row, col, stone, 1)

RECURSIVE hasLibertiesCounted(_, _, _, _)
RECURSIVE hasLibertiesDirsCounted(_, _, _, _, _, _)
RECURSIVE hasLibertiesDirsCounted_OwnVisited(_, _, _, _, _, _)

\* The counted loop of hasLiberties with a visited map of its own in every
\* call: what a callee marks is not seen by its caller.
hasLibertiesDirsCounted_OwnVisited(g, row, col, stone, i, visited) ==
    IF i > Len(directions)
    THEN [found |-> FALSE, visited |-> visited, calls |-> 0]
    ELSE LET newRow == row + directions[i][1]
             newCol == col + directions[i][2]
         IN  IF ~isInBounds(newRow, newCol)
             THEN hasLibertiesDirsCounted_OwnVisited(g, row, col, stone, i + 1,
                                                     visited)
             ELSE IF g[<<newRow, newCol>>] = Empty
             THEN [found |-> TRUE, visited |-> visited, calls |-> 0]
             ELSE IF g[<<newRow, newCol>>] = stone
             THEN LET r == hasLibertiesCounted(g, newRow, newCol, visited)
                  IN  IF r.found
                      THEN r
                      ELSE LET rest == hasLibertiesDirsCounted_OwnVisited(
                                           g, row, col, stone, i + 1, visited)
                           IN  [rest EXCEPT !.calls = @ + r.calls]
             ELSE hasLibertiesDirsCounted_OwnVisited(g, row, col, stone, i + 1,
                                                     visited)

\* hasLibertiesDirs with the expansions counted: calls is the number of
\* invocations of hasLiberties, made from directions[i..4] on, that got past
\* the test of the visited map.
hasLibertiesDirsCounted(g, row, col, stone, i, visited) ==
    IF i > Len(directions)
    THEN [found |-> FALSE, visited |-> visited, calls |-> 0]
    ELSE LET newRow == row + directions[i][1]
             newCol == col + directions[i][2]
         IN  IF ~isInBounds(newRow, newCol)
             THEN hasLibertiesDirsCounted(g, row, col, stone, i + 1, visited)
             ELSE IF g[<<newRow, newCol>>] = Empty
             THEN [found |-> TRUE, visited |-> visited, calls |-> 0]
             ELSE IF g[<<newRow, newCol>>] = stone
             THEN LET r == hasLibertiesCounted(g, newRow, newCol, visited)
                  IN  IF r.found
                      THEN r
                      ELSE LET rest == hasLibertiesDirsCounted(
                                           g, row, col, stone, i + 1, r.visited)
                           IN  [rest EXCEPT !.calls = @ + r.calls]
             ELSE hasLibertiesDirsCounted(g, row, col, stone, i + 1, visited)

\* hasLibertiesFrom with the expansions counted.
hasLibertiesCounted(g, row, col, visited) ==
    IF <<row, col>> \in visited
    THEN [found |-> FALSE, visited |-> visited, calls |-> 0]
    ELSE LET r == hasLibertiesDirsCounted(g, row, col, g[<<row, col>>], 1,
                                          visited \cup {<<row, col>>})
         IN  [r EXCEPT !.calls = @ + 1]

RECURSIVE removeGroupCounted(_, _, _)
RECURSIVE removeGroupDirsCounted(_, _, _, _, _, _)

\* removeGroupDirs with the invocations counted: n is the number of
\* invocations of removeGroup made so far.
removeGroupDirsCounted(g, row, col, stone, i, n) ==
    IF i > Len(directions)
    THEN [grid |-> g, calls |-> n]
    ELSE LET newRow == row + directions[i][1]
             newCol == col + directions[i][2]
         IN  IF isInBounds(newRow, newCol) /\ g[<<newRow, newCol>>] = stone
             THEN LET r == removeGroupCounted(g, newRow, newCol)
                  IN  removeGroupDirsCounted(r.grid, row, col, stone, i + 1,
                                             n + r.calls)
             ELSE removeGroupDirsCounted(g, row, col, stone, i + 1, n)

\* removeGroup with the invocations counted, this one included.
removeGroupCounted(g, row, col) ==
    LET stone == g[<<row, col>>]
    IN  IF stone = Empty
        THEN [grid |-> g, calls |-> 1]
        ELSE removeGroupDirsCounted([g EXCEPT ![<<row, col>>] = Empty],
                                    row, col, stone, 1, 1)

RECURSIVE captureAdjacent_FirstOnly(_, _, _, _, _)

\* The capture loop leaving the loop after its first capture.
captureAdjacent_FirstOnly(g, row, col, opponent, i) ==
    IF i > Len(directions)
    THEN g
    ELSE LET newRow == row + directions[i][1]
             newCol == col + directions[i][2]
         IN  IF isInBounds(newRow, newCol) /\ g[<<newRow, newCol>>] = opponent
             THEN IF ~hasLiberties(g, newRow, newCol)
                  THEN removeGroup(g, newRow, newCol)
                  ELSE captureAdjacent_FirstOnly(g, row, col, opponent, i + 1)
             ELSE captureAdjacent_FirstOnly(g, row, col, opponent, i + 1)

RECURSIVE captureAdjacent_NoLibertyTest(_, _, _, _, _)

\* The capture loop removing every opponent group next to the placed stone,
\* whether or not it has a liberty left.
captureAdjacent_NoLibertyTest(g, row, col, opponent, i) ==
    IF i > Len(directions)
    THEN g
    ELSE LET newRow == row + directions[i][1]
             newCol == col + directions[i][2]
         IN  IF isInBounds(newRow, newCol) /\ g[<<newRow, newCol>>] = opponent
             THEN captureAdjacent_NoLibertyTest(removeGroup(g, newRow, newCol),
                                                row, col, opponent, i + 1)
             ELSE captureAdjacent_NoLibertyTest(g, row, col, opponent, i + 1)

RECURSIVE captureAdjacentIn(_, _, _, _, _, _)
RECURSIVE captureAdjacentIn_StopAfterCapture(_, _, _, _, _, _)

\* The capture loop over dirs ending with its first removal.
captureAdjacentIn_StopAfterCapture(dirs, g, row, col, opponent, i) ==
    IF i > Len(dirs)
    THEN g
    ELSE LET newRow == row + dirs[i][1]
             newCol == col + dirs[i][2]
         IN  IF isInBounds(newRow, newCol) /\ g[<<newRow, newCol>>] = opponent
             THEN IF ~hasLiberties(g, newRow, newCol)
                  THEN removeGroup(g, newRow, newCol)
                  ELSE captureAdjacentIn_StopAfterCapture(dirs, g, row, col,
                                                          opponent, i + 1)
             ELSE captureAdjacentIn_StopAfterCapture(dirs, g, row, col,
                                                     opponent, i + 1)

\* The capture loop of PlaceStone over dirs[i..4], for a directions slice dirs.
captureAdjacentIn(dirs, g, row, col, opponent, i) ==
    IF i > Len(dirs)
    THEN g
    ELSE LET newRow == row + dirs[i][1]
             newCol == col + dirs[i][2]
         IN  IF isInBounds(newRow, newCol) /\ g[<<newRow, newCol>>] = opponent
             THEN IF ~hasLiberties(g, newRow, newCol)
                  THEN captureAdjacentIn(dirs, removeGroup(g, newRow, newCol),
                                         row, col, opponent, i + 1)
                  ELSE captureAdjacentIn(dirs, g, row, col, opponent, i + 1)
             ELSE captureAdjacentIn(dirs, g, row, col, opponent, i + 1)

\* The capture loop of PlaceStone over directions[i..4].
captureAdjacent(g, row, col, opponent, i) ==
    captureAdjacentIn(directions, g, row, col, opponent, i)

\* The placement without the capture loop.
placeAndCapture_NoCapture(g, t, row, col) == [g EXCEPT ![<<row, col>>] = t]

\* The grid once the stone is on the board and the capture loop has run.
placeAndCapture(g, t, row, col) ==
    captureAdjacent([g EXCEPT ![<<row, col>>] = t], row, col, opponentOf(t), 1)

\* The suicide branch leaving the placed stone on the board.
undoPlacement_Keep(g, row, col) == g

\* The suicide branch of PlaceStone: the placed stone is taken off again.
undoPlacement(g, row, col) == [g EXCEPT ![<<row, col>>] = Empty]

\* IsGameOver asking for a third pass.
IsGameOver_ThreePasses == passes >= 3

IsGameOver == passes >= 2

(* ------------------------------- actions ------------------------------ *)

\* NewBoard leaving turn at the zero value of Stone.
NewBoard_NoTurn(n) ==
    [size |-> n, grid |-> [c \in Cells(n) |-> Empty], turn |-> Empty, passes |-> 0]

\* The Board NewBoard(n) returns: make() fills the grid with the zero value of
\* Stone, which is Empty, and passes keeps the zero value of int.
NewBoard(n) ==
    [size |-> n, grid |-> [c \in Cells(n) |-> Empty], turn |-> Black, passes |-> 0]

\* The state once NewBoard(n) has returned, for a run of limit successful
\* operations.
Constructed(n, limit) ==
    LET b == NewBoard(n)
    IN  /\ size = b.size
        /\ grid = b.grid
        /\ turn = b.turn
        /\ passes = b.passes
        /\ lastOp = [op |-> "NewBoard", row |-> 0, col |-> 0, ret |-> TRUE]
        /\ prev = [grid |-> b.grid, turn |-> b.turn, passes |-> b.passes]
        /\ nOps = 0
        /\ lastOk = "NewBoard"
        /\ prevOk = "NewBoard"
        /\ opLimit = limit

Init == Constructed(BoardSize, MaxOps)

Rejected(row, col) ==
    /\ lastOp' = [op |-> "PlaceStone", row |-> row, col |-> col, ret |-> FALSE]
    /\ UNCHANGED <<nOps, lastOk, prevOk>>

Accepted(row, col) ==
    /\ nOps < opLimit
    /\ lastOp' = [op |-> "PlaceStone", row |-> row, col |-> col, ret |-> TRUE]
    /\ nOps' = nOps + 1
    /\ lastOk' = "PlaceStone"
    /\ prevOk' = lastOk

\* PlaceStone doing the bookkeeping of an accepted move before the suicide check.
PlaceStone_BookkeepingFirst(row, col) ==
    /\ prev' = [grid |-> grid, turn |-> turn, passes |-> passes]
    /\ UNCHANGED <<size, opLimit>>
    /\ IF ~IsValidMove(grid, row, col)
       THEN /\ UNCHANGED <<grid, turn, passes>>
            /\ Rejected(row, col)
       ELSE LET g == placeAndCapture(grid, turn, row, col)
            IN  /\ passes' = 0
                /\ turn' = nextTurn(turn)
                /\ IF ~hasLiberties(g, row, col)
                   THEN /\ grid' = undoPlacement(g, row, col)
                        /\ Rejected(row, col)
                   ELSE /\ grid' = g
                        /\ Accepted(row, col)

\* PlaceStone taking the turn away on an invalid move.
PlaceStone_InvalidLosesTurn(row, col) ==
    /\ prev' = [grid |-> grid, turn |-> turn, passes |-> passes]
    /\ UNCHANGED <<size, opLimit>>
    /\ IF ~IsValidMove(grid, row, col)
       THEN /\ turn' = nextTurn(turn)
            /\ UNCHANGED <<grid, passes>>
            /\ Rejected(row, col)
       ELSE LET g == placeAndCapture(grid, turn, row, col)
            IN  IF ~hasLiberties(g, row, col)
                THEN /\ grid' = undoPlacement(g, row, col)
                     /\ UNCHANGED <<turn, passes>>
                     /\ Rejected(row, col)
                ELSE /\ grid' = g
                     /\ passes' = 0
                     /\ turn' = nextTurn(turn)
                     /\ Accepted(row, col)

\* PlaceStone running the suicide check on the grid as it was before the
\* capture loop.
PlaceStone_StaleSuicideCheck(row, col) ==
    /\ prev' = [grid |-> grid, turn |-> turn, passes |-> passes]
    /\ UNCHANGED <<size, opLimit>>
    /\ IF ~IsValidMove(grid, row, col)
       THEN /\ UNCHANGED <<grid, turn, passes>>
            /\ Rejected(row, col)
       ELSE LET g == placeAndCapture(grid, turn, row, col)
            IN  IF ~hasLiberties([grid EXCEPT ![<<row, col>>] = turn], row, col)
                THEN /\ grid' = undoPlacement(g, row, col)
                     /\ UNCHANGED <<turn, passes>>
                     /\ Rejected(row, col)
                ELSE /\ grid' = g
                     /\ passes' = 0
                     /\ turn' = nextTurn(turn)
                     /\ Accepted(row, col)

\* PlaceStone with a ko rule: a placement that would leave the grid as it was
\* when the previous call began is rejected and the grid is left as it is.
PlaceStone_KoRule(row, col) ==
    /\ prev' = [grid |-> grid, turn |-> turn, passes |-> passes]
    /\ UNCHANGED <<size, opLimit>>
    /\ IF ~IsValidMove(grid, row, col)
       THEN /\ UNCHANGED <<grid, turn, passes>>
            /\ Rejected(row, col)
       ELSE LET g == placeAndCapture(grid, turn, row, col)
            IN  IF g = prev.grid
                THEN /\ UNCHANGED <<grid, turn, passes>>
                     /\ Rejected(row, col)
                ELSE IF ~hasLiberties(g, row, col)
                THEN /\ grid' = undoPlacement(g, row, col)
                     /\ UNCHANGED <<turn, passes>>
                     /\ Rejected(row, col)
                ELSE /\ grid' = g
                     /\ passes' = 0
                     /\ turn' = nextTurn(turn)
                     /\ Accepted(row, col)

PlaceStone(row, col) ==
    /\ prev' = [grid |-> grid, turn |-> turn, passes |-> passes]
    /\ UNCHANGED <<size, opLimit>>
    /\ IF ~IsValidMove(grid, row, col)
       THEN /\ UNCHANGED <<grid, turn, passes>>
            /\ Rejected(row, col)
       ELSE LET g == placeAndCapture(grid, turn, row, col)
            IN  IF ~hasLiberties(g, row, col)
                THEN /\ grid' = undoPlacement(g, row, col)
                     /\ UNCHANGED <<turn, passes>>
                     /\ Rejected(row, col)
                ELSE /\ grid' = g
                     /\ passes' = 0
                     /\ turn' = nextTurn(turn)
                     /\ Accepted(row, col)

\* Pass without the turn change.
Pass_NoTurn ==
    /\ nOps < opLimit
    /\ prev' = [grid |-> grid, turn |-> turn, passes |-> passes]
    /\ passes' = passes + 1
    /\ UNCHANGED <<size, opLimit, grid, turn>>
    /\ lastOp' = [op |-> "Pass", row |-> 0, col |-> 0, ret |-> TRUE]
    /\ nOps' = nOps + 1
    /\ lastOk' = "Pass"
    /\ prevOk' = lastOk

\* Pass without the increment of the counter.
Pass_NoIncrement ==
    /\ nOps < opLimit
    /\ prev' = [grid |-> grid, turn |-> turn, passes |-> passes]
    /\ turn' = nextTurn(turn)
    /\ UNCHANGED <<size, opLimit, grid, passes>>
    /\ lastOp' = [op |-> "Pass", row |-> 0, col |-> 0, ret |-> TRUE]
    /\ nOps' = nOps + 1
    /\ lastOk' = "Pass"
    /\ prevOk' = lastOk

\* Pass holding the counter at 2.
Pass_Saturating ==
    /\ nOps < opLimit
    /\ prev' = [grid |-> grid, turn |-> turn, passes |-> passes]
    /\ passes' = IF passes >= 2 THEN passes ELSE passes + 1
    /\ turn' = nextTurn(turn)
    /\ UNCHANGED <<size, opLimit, grid>>
    /\ lastOp' = [op |-> "Pass", row |-> 0, col |-> 0, ret |-> TRUE]
    /\ nOps' = nOps + 1
    /\ lastOk' = "Pass"
    /\ prevOk' = lastOk

Pass ==
    /\ nOps < opLimit
    /\ prev' = [grid |-> grid, turn |-> turn, passes |-> passes]
    /\ passes' = passes + 1
    /\ turn' = nextTurn(turn)
    /\ UNCHANGED <<size, opLimit, grid>>
    /\ lastOp' = [op |-> "Pass", row |-> 0, col |-> 0, ret |-> TRUE]
    /\ nOps' = nOps + 1
    /\ lastOk' = "Pass"
    /\ prevOk' = lastOk

PlaceStoneCall == \E rc \in Inputs : PlaceStone(rc[1], rc[2])

Next == PlaceStoneCall \/ Pass

Spec == Init /\ [][Next]_vars

\* The capture scenario: a centre cell and its four neighbours on a
\* NewBoard(ScenarioSize), played on in any order, with passes.
ScenarioCells == {<<2, 2>>, <<1, 2>>, <<2, 1>>, <<3, 2>>, <<2, 3>>}

InitScenario == Constructed(ScenarioSize, ScenarioOps)

ScenarioPlaceStone == \E rc \in ScenarioCells : PlaceStone(rc[1], rc[2])

NextScenario == ScenarioPlaceStone \/ Pass

SpecScenario == InitScenario /\ [][NextScenario]_vars

\* NewBoard(n) with n below 0: make() panics with a negative length, and no
\* Board is returned.
Panicked(n, limit) ==
    /\ n < 0
    /\ size = n
    /\ grid = [c \in {} |-> Empty]
    /\ turn = Empty
    /\ passes = 0
    /\ lastOp = [op |-> "NewBoard", row |-> 0, col |-> 0, ret |-> FALSE]
    /\ prev = [grid |-> [c \in {} |-> Empty], turn |-> Empty, passes |-> 0]
    /\ nOps = 0
    /\ lastOk = "NewBoard"
    /\ prevOk = "NewBoard"
    /\ opLimit = limit

\* A Board came out of the construction.
BoardExists == lastOp.op # "NewBoard" \/ lastOp.ret = TRUE

\* The sizes NewBoard is called with: one negative size, zero, and the
\* positive sizes up to MaxNewSize.
NewSizes == -1 .. MaxNewSize

InitNew ==
    \E n \in NewSizes :
        IF n < 0 THEN Panicked(n, QueryOps) ELSE Constructed(n, QueryOps)

\* A caller asking IsValidMove(row, col): the answer is recorded, nothing is
\* written.
IsValidMoveCall(row, col) ==
    /\ prev' = [grid |-> grid, turn |-> turn, passes |-> passes]
    /\ lastOp' = [op |-> "IsValidMove", row |-> row, col |-> col,
                  ret |-> IsValidMove(grid, row, col)]
    /\ UNCHANGED <<size, opLimit, grid, turn, passes, nOps, lastOk, prevOk>>

NewPlaceStone ==
    BoardExists /\ \E rc \in InputsOf(size) : PlaceStone(rc[1], rc[2])

NewPass == BoardExists /\ Pass

NewIsValidMove ==
    BoardExists /\ \E rc \in InputsOf(size) : IsValidMoveCall(rc[1], rc[2])

NextNew == NewPlaceStone \/ NewPass \/ NewIsValidMove

SpecNew == InitNew /\ [][NextNew]_vars

\* The cells of the board within its top-left 3 x 3 corner.
Corner == Cells(BoardSize) \cap Cells(3)

\* Any grid of a NewBoard(BoardSize) whose stones lie in the corner: the grids
\* removeGroup is handed.
InitGrid ==
    /\ size = BoardSize
    /\ \E h \in [Corner -> Stone] :
          grid = [c \in Cells(BoardSize) |-> IF c \in Corner THEN h[c] ELSE Empty]
    /\ turn = Black
    /\ passes = 0
    /\ lastOp = [op |-> "Setup", row |-> 0, col |-> 0, ret |-> TRUE]
    /\ prev = [grid |-> grid, turn |-> Black, passes |-> 0]
    /\ nOps = 0
    /\ lastOk = "Setup"
    /\ prevOk = "Setup"
    /\ opLimit = 0

\* One call of removeGroup(row, col) on the grid drawn.
RemoveGroupCall ==
    /\ lastOp.op = "Setup"
    /\ \E rc \in Corner :
          /\ grid' = removeGroup(grid, rc[1], rc[2])
          /\ lastOp' = [op |-> "removeGroup", row |-> rc[1], col |-> rc[2],
                        ret |-> TRUE]
    /\ prev' = [grid |-> grid, turn |-> turn, passes |-> passes]
    /\ UNCHANGED <<size, opLimit, turn, passes, nOps, lastOk, prevOk>>

\* One call of hasLiberties(row, col, make(map[[2]int]bool)) on a stone of the
\* grid drawn: the grid is read, not written.
HasLibertiesCall ==
    /\ lastOp.op = "Setup"
    /\ \E rc \in Corner :
          /\ grid[rc] # Empty
          /\ lastOp' = [op |-> "hasLiberties", row |-> rc[1], col |-> rc[2],
                        ret |-> hasLiberties(grid, rc[1], rc[2])]
    /\ prev' = [grid |-> grid, turn |-> turn, passes |-> passes]
    /\ UNCHANGED <<size, opLimit, grid, turn, passes, nOps, lastOk, prevOk>>

NextGrid == RemoveGroupCall \/ HasLibertiesCall

SpecGrid == InitGrid /\ [][NextGrid]_vars

\* Any position of a NewBoard(BoardSize) between two calls whose stones lie in
\* the corner, with Black to move: no group on it is without a liberty.
InitPosition ==
    /\ size = BoardSize
    /\ \E h \in [Corner -> Stone] :
          grid = [c \in Cells(BoardSize) |-> IF c \in Corner THEN h[c] ELSE Empty]
    /\ \A c \in Corner : grid[c] # Empty => hasLiberties(grid, c[1], c[2])
    /\ turn = Black
    /\ passes = 0
    /\ lastOp = [op |-> "Setup", row |-> 0, col |-> 0, ret |-> TRUE]
    /\ prev = [grid |-> grid, turn |-> turn, passes |-> 0]
    /\ nOps = 0
    /\ lastOk = "Setup"
    /\ prevOk = "Setup"
    /\ opLimit = 1

\* One call of PlaceStone on the position drawn.
PositionPlaceStone ==
    /\ lastOp.op = "Setup"
    /\ PlaceStoneCall

NextPosition == PositionPlaceStone

SpecPosition == InitPosition /\ [][NextPosition]_vars

\* main after board := NewBoard(9), with BoardSize for the 9.
InitMain == Constructed(BoardSize, MaxOps)

\* main is at the head of its for loop: it has not returned, and has not left
\* the loop.
MainAtLoop == lastOp.op \in {"NewBoard", "Pass", "PlaceStone"}

\* The loop condition holds and the line read is "pass".
MainPass ==
    /\ MainAtLoop
    /\ ~IsGameOver
    /\ Pass

\* The loop condition holds and the line read is two integers; a line that is
\* neither a command nor two integers changes nothing and is a stuttering step.
MainPlaceStone ==
    /\ MainAtLoop
    /\ ~IsGameOver
    /\ PlaceStoneCall

\* The loop condition holds and the line read is "quit": main returns.
MainQuit ==
    /\ MainAtLoop
    /\ ~IsGameOver
    /\ lastOp' = [op |-> "quit", row |-> 0, col |-> 0, ret |-> TRUE]
    /\ UNCHANGED <<size, grid, turn, passes, prev, nOps, lastOk, prevOk, opLimit>>

\* The loop condition holds and no line can be read: break.
MainBreak ==
    /\ MainAtLoop
    /\ ~IsGameOver
    /\ lastOp' = [op |-> "break", row |-> 0, col |-> 0, ret |-> TRUE]
    /\ UNCHANGED <<size, grid, turn, passes, prev, nOps, lastOk, prevOk, opLimit>>

\* The loop condition fails: main leaves the loop and reports the end of the
\* game.
MainGameOver ==
    /\ MainAtLoop
    /\ IsGameOver
    /\ lastOp' = [op |-> "GameOver", row |-> 0, col |-> 0, ret |-> TRUE]
    /\ UNCHANGED <<size, grid, turn, passes, prev, nOps, lastOk, prevOk, opLimit>>

NextMain == MainPass \/ MainPlaceStone \/ MainQuit \/ MainBreak \/ MainGameOver

SpecMain == InitMain /\ [][NextMain]_vars

\* The five cells of a ko in the top-left corner: the two points of the ko,
\* (0,0) and (0,1), and the three cells around them.
KoCells == {<<0, 0>>, <<0, 1>>, <<1, 0>>, <<0, 2>>, <<1, 1>>}

\* A NewBoard(BoardSize) played on for KoOps successful operations.
InitKo == Constructed(BoardSize, KoOps)

KoPlaceStone == \E rc \in KoCells : PlaceStone(rc[1], rc[2])

NextKo == KoPlaceStone \/ Pass

SpecKo == InitKo /\ [][NextKo]_vars

(* ------------------- groups and liberties, as defined ------------------ *)

\* Edge-adjacency: up, down, left, right, not diagonal.
Adjacent(a, b) ==
    \/ a[1] = b[1] /\ (a[2] = b[2] + 1 \/ b[2] = a[2] + 1)
    \/ a[2] = b[2] /\ (a[1] = b[1] + 1 \/ b[1] = a[1] + 1)

RECURSIVE GroupClosure(_, _, _)

\* The least set containing S and closed under stepping to an adjacent cell
\* that holds the stone st.
GroupClosure(g, st, S) ==
    LET T == S \cup {n \in Cells(size) :
                        g[n] = st /\ \E m \in S : Adjacent(n, m)}
    IN  IF T = S THEN S ELSE GroupClosure(g, st, T)

\* The maximal 4-connected same-colour group of grid g that contains cell c.
Group(g, c) == GroupClosure(g, g[c], {c})

\* The empty cells edge-adjacent to some cell of the group of c.
Liberties(g, c) ==
    {e \in Cells(size) : g[e] = Empty /\ \E m \in Group(g, c) : Adjacent(e, m)}

\* The cell the last call named.
LastCell == <<lastOp.row, lastOp.col>>

\* The last call was a PlaceStone on an empty in-bounds cell.
PlacedOnEmpty ==
    /\ lastOp.op = "PlaceStone"
    /\ LastCell \in Cells(size)
    /\ prev.grid[LastCell] = Empty

\* The grid the last call began with, with the mover's stone on the target.
Tentative == [prev.grid EXCEPT ![LastCell] = prev.turn]

\* The opponent cells next to the target whose group has no liberty once the
\* stone is placed.
DeadNeighbours ==
    {n \in Cells(size) :
        /\ Adjacent(n, LastCell)
        /\ Tentative[n] \notin {Empty, prev.turn}
        /\ Liberties(Tentative, n) = {}}

\* The distinct opponent groups the placement leaves without a liberty.
DeadGroups == {Group(Tentative, n) : n \in DeadNeighbours}

(* -------------------------------- claims ------------------------------ *)

\* C1: every rejected PlaceStone call, whatever the reason, leaves every grid
\* cell, the turn and the consecutive-pass counter as they were before the call.
C1_RejectedLeavesState ==
    (lastOp.op = "PlaceStone" /\ lastOp.ret = FALSE) =>
        /\ grid = prev.grid
        /\ turn = prev.turn
        /\ passes = prev.passes

\* A placement on an empty in-bounds cell, next to opponent stones, was rejected.
C1_Witness ==
    /\ PlacedOnEmpty
    /\ lastOp.ret = FALSE
    /\ \E n \in Cells(size) :
          Adjacent(n, LastCell) /\ prev.grid[n] \notin {Empty, prev.turn}

\* C2: between calls, no stone on the grid belongs to a maximal 4-connected
\* same-colour group that has no liberty.
C2_NoDeadGroup ==
    \A c \in Cells(size) : grid[c] # Empty => Liberties(grid, c) # {}

\* An accepted placement has just taken stones off the board.
C2_Witness ==
    /\ PlacedOnEmpty
    /\ lastOp.ret = TRUE
    /\ \E c \in Cells(size) : prev.grid[c] # Empty /\ grid[c] = Empty

\* C3: after the Nth successful operation (accepted placement or pass, rejected
\* placements not counted) turn is Black when N is even and White when N is odd.
C3_TurnParity ==
    turn = IF nOps % 2 = 0 THEN Black ELSE White

\* A rejected placement after three successful operations, passes among them.
C3_Witness ==
    /\ nOps = 3
    /\ lastOp.op = "PlaceStone"
    /\ lastOp.ret = FALSE
    /\ "Pass" \in {lastOk, prevOk}
    /\ "PlaceStone" \in {lastOk, prevOk}

\* C4: a PlaceStone on an empty in-bounds cell that takes the last liberty of an
\* adjacent opponent group is accepted, the stone stays on the target and that
\* group's neighbouring stones are gone, also when the placed stone's group
\* would have no liberty with the opponent group left on the board.
C4_CaptureEnablesPlacement ==
    (PlacedOnEmpty /\ DeadNeighbours # {}) =>
        /\ lastOp.ret = TRUE
        /\ grid[LastCell] = prev.turn
        /\ \A n \in DeadNeighbours : grid[n] = Empty

\* The placed stone had no liberty before the capture, and the move was accepted.
C4_Witness ==
    /\ PlacedOnEmpty
    /\ DeadNeighbours # {}
    /\ Liberties(Tentative, LastCell) = {}
    /\ lastOp.ret = TRUE

\* C5: a PlaceStone on an empty in-bounds cell after which the placed stone's
\* group has no liberty, and which captures no opponent group, is rejected and
\* leaves the grid unchanged.
C5_SuicideRejected ==
    (PlacedOnEmpty /\ DeadNeighbours = {} /\ Liberties(Tentative, LastCell) = {}) =>
        /\ lastOp.ret = FALSE
        /\ grid = prev.grid

\* A suicide was attempted.
C5_Witness ==
    /\ PlacedOnEmpty
    /\ DeadNeighbours = {}
    /\ Liberties(Tentative, LastCell) = {}

\* C6: a single PlaceStone next to two or more distinct opponent groups that
\* each have no liberty once the stone is placed removes every stone of all of
\* those groups.
C6_MultiGroupCapture ==
    (PlacedOnEmpty /\ Cardinality(DeadGroups) >= 2) =>
        \A G \in DeadGroups : \A m \in G : grid[m] = Empty

\* One placement has captured two distinct groups.
C6_Witness ==
    /\ PlacedOnEmpty
    /\ Cardinality(DeadGroups) >= 2
    /\ lastOp.ret = TRUE

\* C7: a Pass whose preceding successful operation was a Pass (rejected
\* placements may lie between them) leaves the game over; a Pass whose
\* preceding successful operation was an accepted placement leaves the streak
\* at 1 and the game not over, the placement having reset the streak to 0.
C7_PassStreak ==
    /\ (lastOp.op = "Pass" /\ prevOk = "Pass") => IsGameOver
    /\ (lastOp.op = "Pass" /\ prevOk = "PlaceStone") => (passes = 1 /\ ~IsGameOver)
    /\ (lastOp.op = "PlaceStone" /\ lastOp.ret = TRUE) => passes = 0

\* Two passes in a row, on a board that already holds stones.
C7_Witness ==
    /\ lastOp.op = "Pass"
    /\ prevOk = "Pass"
    /\ IsGameOver
    /\ \E c \in Cells(size) : grid[c] # Empty

\* C8: once IsGameOver is true, no PlaceStone or Pass makes it false again.
C8_OverIsTerminal == [][IsGameOver => IsGameOver']_vars

\* C9: the consecutive-pass counter lies in 0..2, and the game is over if and
\* only if the counter equals 2.
C9_PassesInRange ==
    /\ passes \in 0 .. 2
    /\ IsGameOver <=> passes = 2

\* C10: every accepted PlaceStone leaves the target cell holding the stone of
\* the player who was to move, the consecutive-pass counter at 0, and turn
\* flipped to the other player.
C10_AcceptedPlacement ==
    (lastOp.op = "PlaceStone" /\ lastOp.ret = TRUE) =>
        /\ grid[LastCell] = prev.turn
        /\ passes = 0
        /\ turn \in {Black, White}
        /\ turn # prev.turn

\* White's placement was accepted after a pass.
C10_Witness ==
    /\ lastOp.op = "PlaceStone"
    /\ lastOp.ret = TRUE
    /\ prev.turn = White
    /\ prev.passes > 0

\* C11: PlaceStone on an in-bounds cell that already holds a stone, of either
\* colour, is rejected and leaves the grid unchanged.
C11_OccupiedRejected ==
    (/\ lastOp.op = "PlaceStone"
     /\ LastCell \in Cells(size)
     /\ prev.grid[LastCell] # Empty) =>
        /\ lastOp.ret = FALSE
        /\ grid = prev.grid

\* A player placed on a cell holding the other player's stone.
C11_Witness ==
    /\ lastOp.op = "PlaceStone"
    /\ LastCell \in Cells(size)
    /\ prev.grid[LastCell] \notin {Empty, prev.turn}
    /\ lastOp.ret = FALSE

C13_PassEffect ==
    /\ nOps < opLimit => ENABLED Pass
    /\ lastOp.op = "Pass" =>
          /\ lastOp.ret = TRUE
          /\ passes = prev.passes + 1
          /\ turn \in {Black, White}
          /\ turn # prev.turn
          /\ grid = prev.grid

\* A pass on a finished game, on a board that holds stones.
C13_Witness ==
    /\ lastOp.op = "Pass"
    /\ prev.passes >= 2
    /\ \E c \in Cells(size) : grid[c] # Empty

\* C18: the grid is N x N for the N given at construction, every cell holds one
\* of Empty, Black, White, and turn is Black or White.
C18_TypeInvariant ==
    /\ size = BoardSize
    /\ DOMAIN grid = Cells(BoardSize)
    /\ \A c \in Cells(BoardSize) : grid[c] \in Stone
    /\ turn \in {Black, White}
    /\ turn # Empty

\* The end of an explored run: a pass on a board holding stones of both colours.
C18_Witness ==
    /\ nOps = opLimit
    /\ lastOp.op = "Pass"
    /\ \E c \in Cells(size) : grid[c] = Black
    /\ \E c \in Cells(size) : grid[c] = White

\* The grid after the capture loop of the last call, a placement on an empty cell.
CaptureStep == placeAndCapture(prev.grid, prev.turn, lastOp.row, lastOp.col)

\* The stones the capture loop of the last call took off the board.
Captured == {c \in Cells(size) : Tentative[c] # Empty /\ CaptureStep[c] = Empty}

\* C19: a PlaceStone whose capture step removes at least one opponent group is
\* accepted, and no PlaceStone ends rejected with opponent stones removed.
C19_CaptureImpliesAccepted ==
    PlacedOnEmpty =>
        /\ Captured # {} => (hasLiberties(CaptureStep, lastOp.row, lastOp.col)
                             /\ lastOp.ret = TRUE)
        /\ lastOp.ret = FALSE =>
              \A c \in Cells(size) :
                  prev.grid[c] \notin {Empty, prev.turn} => grid[c] = prev.grid[c]

\* An accepted placement whose capture step took two or more stones.
C19_Witness ==
    /\ PlacedOnEmpty
    /\ Cardinality(Captured) >= 2
    /\ lastOp.ret = TRUE

\* The board of the scenario before White's fourth placement: Black on (2,2),
\* White on (1,2), (2,1) and (3,2).
ScenarioBefore ==
    [c \in Cells(ScenarioSize) |->
        IF c = <<2, 2>> THEN Black
        ELSE IF c \in {<<1, 2>>, <<2, 1>>, <<3, 2>>} THEN White
        ELSE Empty]

\* C14: on the scenario board, after Black (2,2) and White (1,2), (2,1), (3,2),
\* White's placement on (2,3) is accepted, leaves (2,2) Empty and the four White
\* stones on the board, and the game is not over.
C14_Scenario ==
    (/\ lastOp.op = "PlaceStone"
     /\ LastCell = <<2, 3>>
     /\ prev.turn = White
     /\ prev.grid = ScenarioBefore) =>
        /\ lastOp.ret = TRUE
        /\ grid[<<2, 2>>] = Empty
        /\ \A w \in {<<1, 2>>, <<2, 1>>, <<3, 2>>, <<2, 3>>} : grid[w] = White
        /\ \A c \in Cells(ScenarioSize) \ ScenarioCells : grid[c] = Empty
        /\ ~IsGameOver

\* The scenario as played: five placements and Black's three passes, the last
\* of them right before White's placement on (2,3).
C14_Witness ==
    /\ lastOp.op = "PlaceStone"
    /\ LastCell = <<2, 3>>
    /\ prev.turn = White
    /\ prev.grid = ScenarioBefore
    /\ prev.passes = 1
    /\ nOps = 8

\* C15: IsValidMove(row, col) returns true if and only if 0 <= row < N,
\* 0 <= col < N and the cell at (row, col) is Empty, and it changes neither the
\* grid nor the turn nor the consecutive-pass counter.
C15_IsValidMove ==
    lastOp.op = "IsValidMove" =>
        /\ lastOp.ret = TRUE <=>
              (/\ 0 <= lastOp.row /\ lastOp.row < size
               /\ 0 <= lastOp.col /\ lastOp.col < size
               /\ prev.grid[LastCell] = Empty)
        /\ grid = prev.grid
        /\ turn = prev.turn
        /\ passes = prev.passes

\* IsValidMove answered true on a board that holds a stone.
C15_Witness ==
    /\ lastOp.op = "IsValidMove"
    /\ lastOp.ret = TRUE
    /\ \E c \in Cells(size) : grid[c] # Empty

\* C16: NewBoard(size) for a positive size yields a size x size grid with every
\* cell Empty, turn Black, the consecutive-pass counter 0 and IsGameOver false.
C16_NewBoard ==
    (lastOp.op = "NewBoard" /\ size > 0) =>
        /\ lastOp.ret = TRUE
        /\ Cardinality(DOMAIN grid) = size * size
        /\ \A r \in 0 .. size - 1 : \A c \in 0 .. size - 1 :
              <<r, c>> \in DOMAIN grid /\ grid[<<r, c>>] = Empty
        /\ turn = Black
        /\ passes = 0
        /\ ~IsGameOver

\* A board of more than one cell has just been constructed.
C16_Witness ==
    /\ lastOp.op = "NewBoard"
    /\ lastOp.ret = TRUE
    /\ size >= 2

\* C17: constructing a board with a size of zero or less fails at construction:
\* no board that PlaceStone, Pass or IsGameOver can be called on exists.
C17_NonPositiveFails == size <= 0 => ~BoardExists

\* Two cells touching at a corner only.
Diagonal(a, b) ==
    /\ (a[1] = b[1] + 1 \/ b[1] = a[1] + 1)
    /\ (a[2] = b[2] + 1 \/ b[2] = a[2] + 1)

\* C20: removeGroup(row, col) on a stone clears exactly the maximal 4-connected
\* set of same-colour cells containing (row, col): every cell of that group
\* becomes Empty and no cell outside it changes.
C20_RemoveGroupExact ==
    (lastOp.op = "removeGroup" /\ prev.grid[LastCell] # Empty) =>
        grid = [x \in Cells(size) |->
                   IF x \in Group(prev.grid, LastCell) THEN Empty
                   ELSE prev.grid[x]]

\* A group of four or more stones was removed while a stone of the same colour
\* diagonal to it, and a stone of the other colour, were on the board.
C20_Witness ==
    /\ lastOp.op = "removeGroup"
    /\ prev.grid[LastCell] # Empty
    /\ Cardinality(Group(prev.grid, LastCell)) >= 4
    /\ \E x \in Cells(size) \ Group(prev.grid, LastCell) :
          /\ prev.grid[x] = prev.grid[LastCell]
          /\ \E m \in Group(prev.grid, LastCell) : Diagonal(x, m)
    /\ \E x \in Cells(size) : prev.grid[x] \notin {Empty, prev.grid[LastCell]}

\* C21: for every grid and every starting cell holding a stone, hasLiberties
\* with an empty visited map returns true exactly when some in-bounds Empty
\* cell is edge-adjacent to a cell of the maximal 4-connected same-colour group
\* of the starting cell; positions off the board are no liberties, and the
\* short-circuiting search agrees with the exhaustive set of liberties.
C21_HasLibertiesExact ==
    lastOp.op = "hasLiberties" =>
        (lastOp.ret <=> Liberties(prev.grid, LastCell) # {})

\* The search started on a group of three or more stones lying on the border
\* of the board whose only liberties touch other stones than the starting one.
C21_Witness ==
    /\ lastOp.op = "hasLiberties"
    /\ lastOp.ret = TRUE
    /\ Cardinality(Group(prev.grid, LastCell)) >= 3
    /\ LastCell[1] = 0
    /\ \A e \in Liberties(prev.grid, LastCell) : ~Adjacent(e, LastCell)

\* The search found no liberty for a group lying on the border of the board.
C21_WitnessNone ==
    /\ lastOp.op = "hasLiberties"
    /\ lastOp.ret = FALSE
    /\ LastCell[1] = 0
    /\ Cardinality(Group(prev.grid, LastCell)) >= 2

\* The search of hasLiberties run on the stone the last call named.
LastSearch == hasLibertiesCounted(prev.grid, lastOp.row, lastOp.col, {})

\* The removal of removeGroup run on the stone the last call named.
LastRemoval == removeGroupCounted(prev.grid, lastOp.row, lastOp.col)

\* C24: the group search and the group removal terminate on every board,
\* groups with cycles in their adjacency graph included: hasLiberties gets past
\* the visited test at most once per coordinate, all of them in the group of
\* the starting stone, and removeGroup is invoked once per stone of the group.
C24_BoundedRecursion ==
    /\ lastOp.op = "hasLiberties" =>
          /\ LastSearch.found = lastOp.ret
          /\ LastSearch.calls = Cardinality(LastSearch.visited)
          /\ LastSearch.visited \subseteq Group(prev.grid, LastCell)
    /\ (lastOp.op = "removeGroup" /\ prev.grid[LastCell] # Empty) =>
          /\ LastRemoval.grid = grid
          /\ LastRemoval.calls = Cardinality(Group(prev.grid, LastCell))

\* A 2 x 2 block of one colour lies within the group of the stone the last call
\* named.
BlockInGroup ==
    \E c \in Cells(size) :
        {c, <<c[1] + 1, c[2]>>, <<c[1], c[2] + 1>>, <<c[1] + 1, c[2] + 1>>}
            \subseteq Group(prev.grid, LastCell)

\* The search ran over a group without liberties that has a 2 x 2 block in it.
C24_Witness ==
    /\ lastOp.op = "hasLiberties"
    /\ lastOp.ret = FALSE
    /\ BlockInGroup

\* The removal ran over a ring of eight stones around a hole.
C24_WitnessRing ==
    /\ lastOp.op = "removeGroup"
    /\ prev.grid[LastCell] # Empty
    /\ Cardinality(Group(prev.grid, LastCell)) = 8
    /\ prev.grid[<<1, 1>>] # prev.grid[LastCell]

\* C22: an accepted PlaceStone changes only the target cell, which receives the
\* mover's stone, and cells of opponent groups that are edge-adjacent to the
\* target and have no liberty once the stone is placed, which become Empty: no
\* stone of the mover is removed, and no opponent group that still has a
\* liberty or is not adjacent to the target loses a stone.
C22_AcceptedFrame ==
    (PlacedOnEmpty /\ lastOp.ret = TRUE) =>
        /\ grid[LastCell] = prev.turn
        /\ \A c \in Cells(size) \ {LastCell} :
              /\ grid[c] # prev.grid[c] =>
                    (c \in UNION DeadGroups /\ grid[c] = Empty)
              /\ prev.grid[c] = prev.turn => grid[c] = prev.turn

\* An accepted placement took a group off the board while another opponent
\* group next to the placed stone, and a stone of the mover, stayed on it.
C22_Witness ==
    /\ PlacedOnEmpty
    /\ lastOp.ret = TRUE
    /\ DeadGroups # {}
    /\ \E n \in Cells(size) :
          /\ Adjacent(n, LastCell)
          /\ prev.grid[n] \notin {Empty, prev.turn}
          /\ grid[n] = prev.grid[n]
    /\ \E c \in Cells(size) \ {LastCell} : prev.grid[c] = prev.turn

\* The orders in which the four directions can be examined.
DirectionOrders ==
    {[i \in 1 .. Len(directions) |-> directions[p[i]]] :
        p \in Permutations(1 .. Len(directions))}

\* What the last PlaceStone returns, and the grid it leaves, when its capture
\* loop examines the directions in the order dirs.
OutcomeIn(dirs) ==
    LET g == captureAdjacentIn(dirs, Tentative, lastOp.row, lastOp.col,
                               opponentOf(prev.turn), 1)
        ok == hasLiberties(g, lastOp.row, lastOp.col)
    IN  [ret |-> ok,
         grid |-> IF ok THEN g ELSE undoPlacement(g, lastOp.row, lastOp.col)]

\* C23: the outcome of PlaceStone, its acceptance and the grid it leaves, is
\* the same for every order in which the capture loop examines the four
\* directions: the loop removes exactly the opponent groups next to the placed
\* stone that have no liberty once the stone is placed, so that no removal
\* gives a liberty to, or takes a stone from, another such group.
C23_OrderIndependent ==
    PlacedOnEmpty =>
        /\ \A dirs \in DirectionOrders :
              OutcomeIn(dirs) = [ret |-> lastOp.ret, grid |-> grid]
        /\ CaptureStep = [x \in Cells(size) |->
                             IF x \in UNION DeadGroups THEN Empty
                             ELSE Tentative[x]]

\* An accepted placement took two opponent groups at once while a third
\* opponent group next to the placed stone stayed.
C23_Witness ==
    /\ PlacedOnEmpty
    /\ lastOp.ret = TRUE
    /\ Cardinality(DeadGroups) >= 2
    /\ \E n \in Cells(size) :
          /\ Adjacent(n, LastCell)
          /\ prev.grid[n] \notin {Empty, prev.turn}
          /\ grid[n] = prev.grid[n]

\* C25: under the loop of main, which calls the engine only while IsGameOver
\* is false, no Pass or PlaceStone is applied to a finished game: the pass
\* counter never exceeds 2, the game is finished by the second of two
\* consecutive passes and by nothing else, and the loop condition ends the loop
\* in the very state that pass left.
C25_DriverStopsAtSecondPass ==
    /\ passes <= 2
    /\ lastOp.op \in {"Pass", "PlaceStone"} => prev.passes < 2
    /\ IsGameOver =>
          /\ lastOp.op \in {"Pass", "GameOver"}
          /\ lastOk = "Pass"
          /\ prevOk = "Pass"
          /\ passes = 2
    /\ lastOp.op = "GameOver" =>
          /\ IsGameOver
          /\ grid = prev.grid
          /\ turn = nextTurn(prev.turn)
          /\ passes = prev.passes + 1

\* The loop ended on two consecutive passes that followed placements.
C25_Witness ==
    /\ lastOp.op = "GameOver"
    /\ nOps >= 4
    /\ \E c \in Cells(size) : grid[c] # Empty

\* The last call was an accepted placement that took exactly one stone and
\* left the placed stone alone with the emptied cell as its only liberty.
KoShape ==
    /\ PlacedOnEmpty
    /\ lastOp.ret = TRUE
    /\ Cardinality(Captured) = 1
    /\ Group(grid, LastCell) = {LastCell}
    /\ Liberties(grid, LastCell) = Captured

\* C26: the engine enforces no ko rule: when an accepted placement has taken
\* a single stone and stands alone with the emptied cell as its only liberty,
\* a placement on that cell by the other player is accepted and takes the
\* stone, and when that stone is all it takes, the grid is again exactly what
\* it was before the first of the two placements; the two positions can follow
\* each other without a pass and without end.
C26_NoKoRule ==
    [][(KoShape /\ lastOp'.op = "PlaceStone" /\ {LastCell'} = Captured) =>
          /\ lastOp'.ret = TRUE
          /\ grid'[LastCell] = Empty
          /\ Cardinality(Captured') = 1 => grid' = prev.grid]_vars

\* Two accepted placements in a row, the last one taking a single stone that
\* stood alone with the cell now played as its only liberty, and a placement
\* on the emptied cell by the player to move gives back the grid before.
C26_Witness ==
    /\ PlacedOnEmpty
    /\ lastOp.ret = TRUE
    /\ lastOk = "PlaceStone"
    /\ prevOk = "PlaceStone"
    /\ Cardinality(Captured) = 1
    /\ \A x \in Captured :
          /\ Group(prev.grid, x) = {x}
          /\ Liberties(prev.grid, x) = {LastCell}
          /\ placeAndCapture(grid, turn, x[1], x[2]) = prev.grid
          /\ hasLiberties(prev.grid, x[1], x[2])

=============================================================================
